---- MODULE Spec2Model ----
(***************************************************************************)
(* pb_json: the PB decoder (package pb), the JCE decoder (package jce) and *)
(* the JSONResult accumulator they share.                                  *)
(*                                                                         *)
(* Bytes are naturals 0..255 and a byte slice is a sequence of them.       *)
(* Machine integers are little-endian bit sequences, so that 32- and       *)
(* 64-bit values keep their width.  A result key is the sequence of its    *)
(* characters.                                                             *)
(***************************************************************************)
EXTENDS Integers, Sequences, FiniteSets, TLC

VARIABLES raw, opts, frags, pc, out, acc, calls

vars == <<raw, opts, frags, pc, out, acc, calls>>

\* ------------------------------------------------------------------ bounds

\* Fields (fragments) concatenated into one PB input stream.
MaxFields == 2
\* Elements concatenated into one JCE input stream.
MaxElems == 2
\* Calls made on the accumulator in AccSpec.
MaxCalls == 4
\* How many of the keys inserted by one FixTagTypeNames pass the map
\* iteration produces again (Go may produce or skip each of them).
MaxRevisit == 1

\* ------------------------------------------------------- small helpers

Min(a, b) == IF a < b THEN a ELSE b

\* raw[n:] and raw[:n]
Drop(s, n) == [i \in 1..(Len(s) - n) |-> s[i + n]]
Take(s, n) == [i \in 1..Min(n, Len(s)) |-> s[i]]

RECURSIVE Concat(_)
Concat(ss) == IF ss = <<>> THEN <<>> ELSE Head(ss) \o Concat(Tail(ss))

\* ------------------------------------------------------- machine integers

\* The 8 bits of a byte, least significant first.
BitsOfByte(b) == [i \in 1..8 |-> (b \div (2 ^ (i - 1))) % 2]

\* binary.LittleEndian over a byte slice: first byte least significant.
BitsLE(bytes) ==
    [i \in 1..(8 * Len(bytes)) |-> BitsOfByte(bytes[((i - 1) \div 8) + 1])[((i - 1) % 8) + 1]]

\* binary.BigEndian over a byte slice: first byte most significant.
BitsBE(bytes) == BitsLE([i \in 1..Len(bytes) |-> bytes[Len(bytes) + 1 - i]])

\* The index of the most significant 1 (0: none).
TopBit(bits) ==
    IF \A i \in 1..Len(bits) : bits[i] = 0 THEN 0
    ELSE CHOOSE i \in 1..Len(bits) :
            bits[i] = 1 /\ \A x \in (i + 1)..Len(bits) : bits[x] = 0

\* A magnitude without leading (most significant) zero bits.
Norm(bits) == Take(bits, TopBit(bits))

\* The low w bits, zero-extended.
LowBits(bits, w) == [i \in 1..w |-> IF i <= Len(bits) THEN bits[i] ELSE 0]

Invert(bits) == [i \in 1..Len(bits) |-> 1 - bits[i]]

\* bits + 1: a bit flips when every bit below it is 1.
AddOne(bits) ==
    [i \in 1..(IF \A x \in 1..Len(bits) : bits[x] = 1 THEN Len(bits) + 1 ELSE Len(bits)) |->
        IF \A x \in 1..(i - 1) : bits[x] = 1
        THEN (IF i <= Len(bits) THEN 1 - bits[i] ELSE 1)
        ELSE bits[i]]

\* ------------------------------------------------------------- values
\* What an interface{} of a JSONResult holds.

IntV(neg, mag) == [k |-> "int", neg |-> neg, mag |-> mag]
BoolV(b) == [k |-> "bool", b |-> b]
\* A Go string, as its bytes.
StrV(bytes) == [k |-> "str", bytes |-> bytes]
\* float32 / float64 made by math.Float32frombits / Float64frombits.
F32V(bits) == [k |-> "f32", bits |-> bits]
F64V(bits) == [k |-> "f64", bits |-> bits]
\* the untyped nil
NullV == [k |-> "null"]
\* a nested JSONResult
ObjV(m) == [k |-> "obj", m |-> m]
\* a []interface{}
ArrV(items) == [k |-> "arr", items |-> items]
\* a []int (readSimpleList): a sequence, but not a []interface{}
IntsV(items) == [k |-> "ints", items |-> items]

\* uintN(value): the unsigned value of the bits.
Unsigned(bits) == IntV(FALSE, Norm(bits))

\* intN(value): the two's complement value of the low w bits.
Signed(bits, w) ==
    LET b == LowBits(bits, w)
    IN  IF b[w] = 1 THEN IntV(TRUE, Norm(AddOne(Invert(b))))
        ELSE IntV(FALSE, Norm(b))

\* A small natural as a value (test data and expected values).
RECURSIVE NatBits(_)
NatBits(n) == IF n = 0 THEN <<>> ELSE <<n % 2>> \o NatBits(n \div 2)
NatV(n) == IntV(FALSE, NatBits(n))

RECURSIVE BitsNat(_)
\* The natural a short bit sequence stands for: its low half plus its high
\* half shifted.
BitsNat(bits) ==
    IF Len(bits) = 0 THEN 0
    ELSE IF Len(bits) = 1 THEN bits[1]
    ELSE BitsNat(Take(bits, Len(bits) \div 2))
         + (2 ^ (Len(bits) \div 2)) * BitsNat(Drop(bits, Len(bits) \div 2))

\* ------------------------------------------------------- JSONResult

EmptyResult == <<>>

Put(j, key, value) ==
    [x \in (DOMAIN j) \cup {key} |-> IF x = key THEN value ELSE j[x]]

Delete(j, key) == [x \in (DOMAIN j) \ {key} |-> j[x]]

\* The collision branch Append and AppendArrayItem share.
Collide(j, key, value) ==
    IF j[key].k = "arr"
    THEN Put(j, key, ArrV(Append(j[key].items, value)))
    ELSE Put(j, key, ArrV(<<j[key], value>>))

\* A collision that puts the new value first.
JSONResultAppendPrepend(j, key, value) ==
    IF key \in DOMAIN j
    THEN IF j[key].k = "arr"
         THEN Put(j, key, ArrV(<<value>> \o j[key].items))
         ELSE Put(j, key, ArrV(<<value, j[key]>>))
    ELSE Put(j, key, value)

\* func (j JSONResult) Append(key, value)
JSONResultAppend(j, key, value) ==
    IF key \in DOMAIN j THEN Collide(j, key, value) ELSE Put(j, key, value)

\* An array-append that binds a first value bare, as Append does.
AppendArrayItemBare(j, key, value) ==
    IF key \in DOMAIN j THEN Collide(j, key, value) ELSE Put(j, key, value)

\* func (j JSONResult) AppendArrayItem(key, value)
AppendArrayItem(j, key, value) ==
    IF key \in DOMAIN j THEN Collide(j, key, value)
    ELSE Put(j, key, ArrV(<<value>>))

RECURSIVE FixFrom(_, _, _)
RECURSIVE FixVisit(_, _, _, _)
\* The range loop of FixTagTypeNames with the keys of todo still to be
\* produced, in any order.  fuel bounds how many inserted keys are produced.
FixFrom(j, todo, fuel) ==
    IF todo = {} THEN {j}
    ELSE UNION {FixVisit(j, key, todo \ {key}, fuel) : key \in todo}

\* One iteration of the loop, on key.
FixVisit(j, key, rest, fuel) ==
    LET v == j[key]
        ks == key \o <<"s">>
        renamed == Put(Delete(j, key), ks, v)
    IN  IF v.k = "obj"
        THEN UNION {FixFrom(Put(j, key, ObjV(n)), rest, fuel) :
                        n \in FixFrom(v.m, DOMAIN v.m, MaxRevisit)}
        ELSE IF v.k = "arr"
        THEN IF ks \in DOMAIN j
             THEN \* an entry that exists already is overwritten, not created
                  FixFrom(renamed, rest, fuel)
             ELSE \* a created entry may be produced or skipped
                  FixFrom(renamed, rest, fuel)
                  \cup (IF fuel > 0 THEN FixFrom(renamed, rest \cup {ks}, fuel - 1)
                        ELSE {})
        ELSE FixFrom(j, rest, fuel)

\* func (j JSONResult) FixTagTypeNames(): every result the pass can leave.
FixTagTypeNames(j) == FixFrom(j, DOMAIN j, MaxRevisit)

\* ---------------------------------------------------------------- keys

DigitChar == <<"0", "1", "2", "3", "4", "5", "6", "7", "8", "9">>

RECURSIVE Decimal(_)
\* %d
Decimal(n) ==
    IF n < 10 THEN <<DigitChar[n + 1]>>
    ELSE Decimal(n \div 10) \o <<DigitChar[(n % 10) + 1]>>

\* %04d
Fmt04d(n) ==
    LET d == Decimal(n)
    IN  [i \in 1..(IF Len(d) < 4 THEN 4 - Len(d) ELSE 0) |-> "0"] \o d

\* fmt.Sprintf("%04d_<name>", tag)
Sprintf(name, tag) == Fmt04d(tag) \o <<"_">> \o name

EndsInS(key) == Len(key) > 0 /\ key[Len(key)] = "s"

\* ------------------------------------------------------- PB: types

Varint == 0
Fixed32 == 5
Fixed64 == 1
Bytes == 2
StartGroup == 3
EndGroup == 4
Unkown == 9
String == 10
Message == 11
Int32 == 12
Int64 == 13
UInt == 14
SInt == 15
Bool == 16
Double == 17
Float == 18
SFixed32 == 19
SFixed64 == 20
Packed == 21
MaxTagValue == 9999

\* The names of typeNamesFormat ("%04d_<name>"); no entry gives "".
typeNamesFormat(typ) ==
    CASE typ = Varint -> <<"v","a","r","i","n","t">>
    [] typ = Fixed32 -> <<"f","i","x","e","d","3","2">>
    [] typ = Fixed64 -> <<"f","i","x","e","d","6","4">>
    [] typ = Bytes -> <<"b","y","t","e","s">>
    [] typ = String -> <<"s","t","r","i","n","g">>
    [] typ = Message -> <<"m","e","s","s","a","g","e">>
    [] typ = Int32 -> <<"i","n","t","3","2">>
    [] typ = Int64 -> <<"i","n","t","6","4">>
    [] typ = UInt -> <<"u","i","n","t">>
    [] typ = SInt -> <<"s","i","n","t">>
    [] typ = Bool -> <<"b","o","o","l">>
    [] typ = Double -> <<"d","o","u","b","l","e">>
    [] typ = Float -> <<"f","l","o","a","t">>
    [] typ = SFixed32 -> <<"s","f","i","x","e","d","3","2">>
    [] typ = SFixed64 -> <<"s","f","i","x","e","d","6","4">>
    [] typ = Packed + Fixed32 -> <<"p","a","c","k","e","d",".","f","i","x","e","d","3","2">>
    [] typ = Packed + Fixed64 -> <<"p","a","c","k","e","d",".","f","i","x","e","d","6","4">>
    [] typ = Packed + Int32 -> <<"p","a","c","k","e","d",".","i","n","t","3","2">>
    [] typ = Packed + Int64 -> <<"p","a","c","k","e","d",".","i","n","t","6","4">>
    [] typ = Packed + UInt -> <<"p","a","c","k","e","d",".","u","i","n","t">>
    [] typ = Packed + SInt -> <<"p","a","c","k","e","d",".","s","i","n","t">>
    [] typ = Packed + Bool -> <<"p","a","c","k","e","d",".","b","o","o","l">>
    [] typ = Packed + Double -> <<"p","a","c","k","e","d",".","d","o","u","b","l","e">>
    [] typ = Packed + Float -> <<"p","a","c","k","e","d",".","f","l","o","a","t">>
    [] typ = Packed + SFixed32 -> <<"p","a","c","k","e","d",".","s","f","i","x","e","d","3","2">>
    [] typ = Packed + SFixed64 -> <<"p","a","c","k","e","d",".","s","f","i","x","e","d","6","4">>
    [] OTHER -> <<>>

\* The key of a type and a tag: fmt.Sprintf(typeNamesFormat[typ], tag).
TypeKey(typ, tag) == Sprintf(typeNamesFormat(typ), tag)

namesToType ==
    [n \in {"varint", "fixed32", "fixed64", "bytes", "string", "message", "int32",
            "int64", "uint", "sint", "bool", "double", "float", "sfixed32", "sfixed64",
            "packed.fixed32s", "packed.fixed64s", "packed.int32s", "packed.int64s",
            "packed.uints", "packed.sints", "packed.bools", "packed.doubles",
            "packed.floats", "packed.sfixed32s", "packed.sfixed64s",
            "strings", "messages", "varints", "fixed32s", "fixed64s", "int32s",
            "int64s", "uints", "sints", "bools", "doubles", "floats", "sfixed32s",
            "sfixed64s"} |->
        CASE n \in {"varint", "varints"} -> Varint
        [] n \in {"fixed32", "fixed32s"} -> Fixed32
        [] n \in {"fixed64", "fixed64s"} -> Fixed64
        [] n = "bytes" -> Bytes
        [] n \in {"string", "strings"} -> String
        [] n \in {"message", "messages"} -> Message
        [] n \in {"int32", "int32s"} -> Int32
        [] n \in {"int64", "int64s"} -> Int64
        [] n \in {"uint", "uints"} -> UInt
        [] n \in {"sint", "sints"} -> SInt
        [] n \in {"bool", "bools"} -> Bool
        [] n \in {"double", "doubles"} -> Double
        [] n \in {"float", "floats"} -> Float
        [] n \in {"sfixed32", "sfixed32s"} -> SFixed32
        [] n \in {"sfixed64", "sfixed64s"} -> SFixed64
        [] n = "packed.fixed32s" -> Packed + Fixed32
        [] n = "packed.fixed64s" -> Packed + Fixed64
        [] n = "packed.int32s" -> Packed + Int32
        [] n = "packed.int64s" -> Packed + Int64
        [] n = "packed.uints" -> Packed + UInt
        [] n = "packed.sints" -> Packed + SInt
        [] n = "packed.bools" -> Packed + Bool
        [] n = "packed.doubles" -> Packed + Double
        [] n = "packed.floats" -> Packed + Float
        [] n = "packed.sfixed32s" -> Packed + SFixed32
        [] n = "packed.sfixed64s" -> Packed + SFixed64]

\* ------------------------------------------------------- PB: options
\* An Options is nil or a mapping from a string to a type name (a string),
\* a sub-mapping, or anything else JSON holds.

NilOptions == [k |-> "nil"]
Options(m) == [k |-> "map", m |-> m]
OptName(s) == [k |-> "name", s |-> s]
OptOther == [k |-> "other"]

RECURSIVE FormatUint(_)
\* strconv.FormatUint(tag, 10)
FormatUint(n) ==
    IF n < 10 THEN DigitChar[n + 1]
    ELSE FormatUint(n \div 10) \o DigitChar[(n % 10) + 1]

\* func GetOptionsKey(tag string) string
GetOptionsKey(tag) == tag \o "options"

\* The lookup the spec describes: "<tag>options", else the sub-mapping
\* stored under "<tag>".
GetOptionsByTagInline(o, tag) ==
    IF o.k = "nil" THEN NilOptions
    ELSE IF GetOptionsKey(tag) \in DOMAIN o.m /\ o.m[GetOptionsKey(tag)].k = "map"
    THEN o.m[GetOptionsKey(tag)]
    ELSE IF tag \in DOMAIN o.m /\ o.m[tag].k = "map" THEN o.m[tag]
    ELSE NilOptions

\* func (o Options) GetOptionsByTag(tag string) Options
GetOptionsByTag(o, tag) ==
    IF o.k = "nil" THEN NilOptions
    ELSE IF GetOptionsKey(tag) \in DOMAIN o.m /\ o.m[GetOptionsKey(tag)].k = "map"
    THEN o.m[GetOptionsKey(tag)]
    ELSE NilOptions

\* func (o Options) GetTypeByTag(tag string) Type
GetTypeByTag(o, tag) ==
    IF o.k = "nil" THEN Unkown
    ELSE IF tag \in DOMAIN o.m /\ o.m[tag].k = "map" THEN Message
    ELSE IF tag \in DOMAIN o.m /\ o.m[tag].k = "name"
            /\ o.m[tag].s \in DOMAIN namesToType
    THEN namesToType[o.m[tag].s]
    ELSE Unkown

\* ------------------------------------------------------- PB: protowire

\* protowire.ParseError(n)
ParseError(n) ==
    CASE n = -1 -> "unexpected EOF"
    [] n = -2 -> "invalid field number"
    [] n = -3 -> "variable length integer overflow"
    [] OTHER -> "parse error"

\* The index of the first byte without the continuation bit among the first
\* ten (0: none).
VarintEnd(b) ==
    IF \E i \in 1..Min(Len(b), 10) : b[i] < 128
    THEN CHOOSE i \in 1..Min(Len(b), 10) :
            b[i] < 128 /\ \A x \in 1..(i - 1) : b[x] >= 128
    ELSE 0

\* ConsumeVarint with the varint ending at byte n.
ConsumeVarintAt(b, n) ==
    IF n = 0 THEN [v |-> <<>>, n |-> IF Len(b) >= 10 THEN -3 ELSE -1]
    ELSE IF n = 10 /\ b[10] >= 2 THEN [v |-> <<>>, n |-> -3]
    ELSE [v |-> [i \in 1..Min(7 * n, 64) |->
                    BitsOfByte(b[((i - 1) \div 7) + 1])[((i - 1) % 7) + 1]],
          n |-> n]

\* protowire.ConsumeVarint: at most 10 bytes, 7 bits each (1 bit in the
\* tenth); n is the bytes consumed, -1 (truncated) or -3 (overflow).
ConsumeVarint(b) == ConsumeVarintAt(b, VarintEnd(b))

\* ConsumeTag of the varint c: the field number is bits 3.. of the varint, the
\* wire type its low 3 bits; n = -2 for a field number < 1 or > MaxInt32.
ConsumeTagOf(c) ==
    IF c.n < 0 THEN [num |-> 0, typ |-> 0, n |-> c.n]
    ELSE IF Len(Norm(Drop(c.v, 3))) > 31 \/ Norm(Drop(c.v, 3)) = <<>>
    THEN [num |-> 0, typ |-> 0, n |-> -2]
    ELSE [num |-> BitsNat(Norm(Drop(c.v, 3))), typ |-> BitsNat(LowBits(c.v, 3)),
          n |-> c.n]

\* protowire.ConsumeTag
ConsumeTag(b) == ConsumeTagOf(ConsumeVarint(b))

\* ConsumeBytes with the length varint c: m bytes follow it.
ConsumeBytesOf(b, c) ==
    IF c.n < 0 THEN [v |-> <<>>, n |-> c.n]
    ELSE IF Len(Norm(c.v)) > 30 \/ BitsNat(Norm(c.v)) > Len(b) - c.n
    THEN [v |-> <<>>, n |-> -1]
    ELSE [v |-> Take(Drop(b, c.n), BitsNat(Norm(c.v))), n |-> c.n + BitsNat(Norm(c.v))]

\* protowire.ConsumeBytes: a varint length m, then m bytes.
ConsumeBytes(b) == ConsumeBytesOf(b, ConsumeVarint(b))

\* protowire.ConsumeFixed32 / ConsumeFixed64: little-endian.
ConsumeFixed32(b) ==
    IF Len(b) < 4 THEN [v |-> <<>>, n |-> -1] ELSE [v |-> BitsLE(Take(b, 4)), n |-> 4]

ConsumeFixed64(b) ==
    IF Len(b) < 8 THEN [v |-> <<>>, n |-> -1] ELSE [v |-> BitsLE(Take(b, 8)), n |-> 8]

\* protowire.DecodeZigZag on a uint64
DecodeZigZag(v) ==
    IF LowBits(v, 64)[1] = 0 THEN IntV(FALSE, Norm(Tail(LowBits(v, 64))))
    ELSE IntV(TRUE, Norm(AddOne(Tail(LowBits(v, 64)))))

\* The bytes of a bit sequence, most significant first.
BytesMsb(bits) ==
    [i \in 1..((Len(bits) + 7) \div 8) |->
        BitsNat(LowBits(Drop(bits, 8 * (((Len(bits) + 7) \div 8) - i)), 8))]

RECURSIVE DivMod(_, _, _)
\* Bytes (most significant first) divided by 10000: the quotient, without
\* its leading zero bytes, and the remainder.
DivMod(bytesMsb, q, r) ==
    IF bytesMsb = <<>> THEN [q |-> q, r |-> r]
    ELSE DivMod(Tail(bytesMsb),
                IF q = <<>> /\ 256 * r + Head(bytesMsb) < 10000 THEN <<>>
                ELSE Append(q, (256 * r + Head(bytesMsb)) \div 10000),
                (256 * r + Head(bytesMsb)) % 10000)

\* The four ASCII decimal digits of n < 10000.
Digits4(n) ==
    <<48 + (n \div 1000), 48 + ((n \div 100) % 10), 48 + ((n \div 10) % 10), 48 + (n % 10)>>

RECURSIVE DecimalChunks(_)
\* The digits of a quotient, then the four digits of the remainder.
DecimalChunksNext(d) == DecimalChunks(d.q) \o Digits4(d.r)

\* The decimal digits of bytes, four at a time.
DecimalChunks(bytesMsb) ==
    IF bytesMsb = <<>> THEN <<>> ELSE DecimalChunksNext(DivMod(bytesMsb, <<>>, 0))

\* Digits without their leading zeros.
StripZeros(ds) ==
    IF \A i \in 1..Len(ds) : ds[i] = 48 THEN <<>>
    ELSE Drop(ds, (CHOOSE i \in 1..Len(ds) :
                      ds[i] # 48 /\ \A x \in 1..(i - 1) : ds[x] = 48) - 1)

\* The ASCII decimal digits of a magnitude ("" for zero).
DecimalDigits(mag) == StripZeros(DecimalChunks(BytesMsb(mag)))

\* strconv.FormatInt / FormatUint of a 64-bit value, as a Go string.
FormatInt(v) ==
    StrV((IF v.neg THEN <<45>> ELSE <<>>)
         \o (IF v.mag = <<>> THEN <<48>> ELSE DecimalDigits(v.mag)))

\* hex.EncodeToString
HexDigit(d) == IF d < 10 THEN 48 + d ELSE 87 + d
EncodeToString(data) ==
    [i \in 1..(2 * Len(data)) |->
        IF i % 2 = 1 THEN HexDigit(data[(i + 1) \div 2] \div 16)
        ELSE HexDigit(data[i \div 2] % 16)]

\* ------------------------------------------------------- PB: decoder
\* A reader returns [rest, result, err]: the bytes left, the accumulator as
\* the call leaves it (Go mutates it in place, also before an error) and the
\* error ("" is nil).

\* fmt.Errorf("<prefix> %w", err) of the deferred wrappers
WrapErr(prefix, err) == IF err = "" THEN "" ELSE prefix \o " " \o err

\* readTagType after protowire.ConsumeTag returned c.
readTagTypeOf(b, c) ==
    IF c.n < 0 THEN [Tag |-> 0, Type |-> 0, rest |-> <<>>, err |-> ParseError(c.n)]
    ELSE IF c.num > MaxTagValue
    THEN [Tag |-> 0, Type |-> 0, rest |-> <<>>, err |-> "pb's tag too big"]
    ELSE [Tag |-> c.num, Type |-> c.typ, rest |-> Drop(b, c.n), err |-> ""]

\* func readTagType(raw) (tagType, rest, err)
readTagType(b) == readTagTypeOf(b, ConsumeTag(b))

\* The character test the comment of isString describes: is any byte of the
\* payload a control character other than HT, LF, CR, or DEL?
HasControlChar(data) ==
    \E i \in 1..Len(data) :
        \/ data[i] = 127
        \/ data[i] <= 31 /\ data[i] \notin {9, 10, 13}

RECURSIVE isString(_)
\* func isString(raw []byte) bool: the first byte that is HT, LF, CR, DEL or
\* a control character decides.
isString(data) ==
    IF data = <<>> THEN TRUE
    ELSE IF Head(data) = 9 \/ Head(data) = 10 \/ Head(data) = 13 THEN TRUE
    ELSE IF Head(data) = 127 THEN FALSE
    ELSE IF Head(data) <= 31 THEN FALSE
    ELSE isString(Tail(data))

\* A readVarint that reads a sint as it reads an int64.
VarintValueNoZigZag(typ, v) ==
    CASE typ = Int32 -> Signed(v, 32)
    [] typ \in {Int64, SInt} -> Signed(v, 64)
    [] typ = UInt -> Unsigned(v)
    [] typ = Bool -> BoolV(Norm(v) # <<>>)
    [] OTHER -> Unsigned(v)

\* The value readVarint adds for a varint v read as typ.
VarintValue(typ, v) ==
    CASE typ = Int32 -> Signed(v, 32)
    [] typ = Int64 -> Signed(v, 64)
    [] typ = UInt -> Unsigned(v)
    [] typ = SInt -> DecodeZigZag(v)
    [] typ = Bool -> BoolV(Norm(v) # <<>>)
    [] OTHER -> Unsigned(v)

\* readVarint after ConsumeVarint returned c, with typ the hint of the tag:
\* the key is of the hint in the five hinted cases, of Varint in the default.
readVarintOf(b, tag, result, c, typ) ==
    IF c.n < 0 THEN [rest |-> b, result |-> result, err |-> ParseError(c.n)]
    ELSE [rest |-> Drop(b, c.n), err |-> "", result |->
            JSONResultAppend(result,
                TypeKey(IF typ \in {Int32, Int64, UInt, SInt, Bool} THEN typ ELSE Varint,
                        tag),
                VarintValue(typ, c.v))]

\* func readVarint(raw, tag, opts, result) ([]byte, error)
readVarint(b, tag, o, result) ==
    readVarintOf(b, tag, result, ConsumeVarint(b), GetTypeByTag(o, FormatUint(tag)))

\* The value readFixed32 adds.
Fixed32Value(typ, v) ==
    CASE typ = SFixed32 -> Signed(v, 32)
    [] typ = Fixed32 -> Unsigned(v)
    [] OTHER -> F32V(v)

readFixed32Of(b, tag, result, c, typ) ==
    IF c.n < 0 THEN [rest |-> b, result |-> result, err |-> ParseError(c.n)]
    ELSE [rest |-> Drop(b, c.n), err |-> "", result |->
            JSONResultAppend(result,
                TypeKey(IF typ \in {Float, SFixed32, Fixed32} THEN typ ELSE Float, tag),
                Fixed32Value(typ, c.v))]

\* func readFixed32(raw, tag, opts, result) ([]byte, error)
readFixed32(b, tag, o, result) ==
    readFixed32Of(b, tag, result, ConsumeFixed32(b), GetTypeByTag(o, FormatUint(tag)))

\* The value readFixed64 adds: the integers as decimal strings.
Fixed64Value(typ, v) ==
    CASE typ = SFixed64 -> FormatInt(Signed(v, 64))
    [] typ = Fixed64 -> FormatInt(Unsigned(v))
    [] OTHER -> F64V(v)

readFixed64Of(b, tag, result, c, typ) ==
    IF c.n < 0 THEN [rest |-> b, result |-> result, err |-> ParseError(c.n)]
    ELSE [rest |-> Drop(b, c.n), err |-> "", result |->
            JSONResultAppend(result,
                TypeKey(IF typ \in {Double, SFixed64, Fixed64} THEN typ ELSE Double, tag),
                Fixed64Value(typ, c.v))]

\* func readFixed64(raw, tag, opts, result) ([]byte, error)
readFixed64(b, tag, o, result) ==
    readFixed64Of(b, tag, result, ConsumeFixed64(b), GetTypeByTag(o, FormatUint(tag)))

\* The element a packed reader consumes: a varint or a fixed width.
PackedConsume(typ, data) ==
    IF typ \in {Packed + Int32, Packed + Int64, Packed + UInt, Packed + SInt,
                Packed + Bool}
    THEN ConsumeVarint(data)
    ELSE IF typ \in {Packed + Fixed32, Packed + Float, Packed + SFixed32}
    THEN ConsumeFixed32(data)
    ELSE ConsumeFixed64(data)

\* The value a packed reader makes of one element.
PackedValue(typ, v) ==
    CASE typ = Packed + Int32 -> Signed(v, 32)
    [] typ = Packed + Int64 -> Signed(v, 64)
    [] typ = Packed + UInt -> Unsigned(v)
    [] typ = Packed + SInt -> DecodeZigZag(v)
    [] typ = Packed + Bool -> BoolV(Norm(v) # <<>>)
    [] typ = Packed + Fixed32 -> Unsigned(v)
    [] typ = Packed + Float -> F32V(v)
    [] typ = Packed + SFixed32 -> Signed(v, 32)
    [] typ = Packed + Fixed64 -> FormatInt(Unsigned(v))
    [] typ = Packed + Double -> F64V(v)
    [] typ = Packed + SFixed64 -> FormatInt(Signed(v, 64))

\* How a packed reader adds an element: the varint readers (int32, int64,
\* uint, sint, bool) call AppendArrayItem, the fixed-width readers Append.
PackedAdd(typ, result, typeName, value) ==
    IF typ \in {Packed + Int32, Packed + Int64, Packed + UInt, Packed + SInt,
                Packed + Bool}
    THEN AppendArrayItem(result, typeName, value)
    ELSE JSONResultAppend(result, typeName, value)

RECURSIVE PackedLoop(_, _, _, _)
\* One iteration of a packed reader, after its consume returned c.
PackedStep(typ, data, tag, result, c) ==
    IF c.n < 0 THEN [result |-> result, err |-> ParseError(c.n)]
    ELSE PackedLoop(typ, Drop(data, c.n), tag,
                    PackedAdd(typ, result, TypeKey(typ, tag), PackedValue(typ, c.v)))

\* for len(data) > 0 { consume; add } of the read<T>Packed functions
PackedLoop(typ, data, tag, result) ==
    IF data = <<>> THEN [result |-> result, err |-> ""]
    ELSE PackedStep(typ, data, tag, result, PackedConsume(typ, data))

\* The name of the reader of a packed type, as its error prefix.
PackedReaderName(typ) ==
    CASE typ = Packed + Int32 -> "[readInt32Packed]"
    [] typ = Packed + Int64 -> "[readInt64Packed]"
    [] typ = Packed + UInt -> "[readUIntPacked]"
    [] typ = Packed + SInt -> "[readSIntPacked]"
    [] typ = Packed + Bool -> "[readBoolPacked]"
    [] typ = Packed + Fixed32 -> "[readFixed32Packed]"
    [] typ = Packed + Float -> "[readFloatPacked]"
    [] typ = Packed + SFixed32 -> "[readSFixed32Packed]"
    [] typ = Packed + Fixed64 -> "[readFixed64Packed]"
    [] typ = Packed + Double -> "[readDoublePacked]"
    [] typ = Packed + SFixed64 -> "[readSFixed64Packed]"

PackedTypes ==
    {Packed + Int32, Packed + Int64, Packed + UInt, Packed + SInt, Packed + Bool,
     Packed + Fixed32, Packed + Float, Packed + SFixed32, Packed + Fixed64,
     Packed + Double, Packed + SFixed64}

\* The errors of a packed reader, wrapped by it and by readPacked.
readPackedOf(typ, r) ==
    [result |-> r.result,
     err |-> WrapErr("[readPacked]", WrapErr(PackedReaderName(typ), r.err))]

\* func readPacked(data, tag, typ, result) (err error)
readPacked(data, tag, typ, result) ==
    IF typ \in PackedTypes THEN readPackedOf(typ, PackedLoop(typ, data, tag, result))
    ELSE [result |-> result, err |-> WrapErr("[readPacked]", "unknown type")]

\* return nil, err
decodeFail(result, err) == [res |-> NullV, err |-> err]

RECURSIVE decodeLoop(_, _, _)

\* func decode(raw, opts) (JSONResult, error)
decode(b, o) == decodeLoop(b, o, EmptyResult)

\* The nested decode of a field hinted message: with GetOptionsByTag.
NestedOptions(o, sTag) == GetOptionsByTag(o, sTag)

\* A message case that skips a nested message that fails to decode.
readBytesMessageSkip(tag, result, n) ==
    IF n.err # "" THEN [result |-> result, err |-> ""]
    ELSE [result |-> JSONResultAppend(result, TypeKey(Message, tag), n.res), err |-> ""]

\* readBytes, case typ == Message, after the nested decode returned n.
readBytesMessage(tag, result, n) ==
    IF n.err # "" THEN [result |-> result, err |-> WrapErr("[readBytes]", n.err)]
    ELSE [result |-> JSONResultAppend(result, TypeKey(Message, tag), n.res), err |-> ""]

\* readBytes, case typ >= Packed, after readPacked returned r.
readBytesPacked(r) == [result |-> r.result, err |-> WrapErr("[readBytes]", r.err)]

\* readBytes, the default case, after the probe decode(data, opts) returned
\* n: a message if the probe succeeded, else bytes or string by isString.
readBytesDefault(data, tag, result, n) ==
    IF n.err = ""
    THEN [result |-> JSONResultAppend(result, TypeKey(Message, tag), n.res), err |-> ""]
    ELSE IF ~isString(data)
    THEN [result |-> JSONResultAppend(result, TypeKey(Bytes, tag),
                                      StrV(EncodeToString(data))),
          err |-> ""]
    ELSE [result |-> JSONResultAppend(result, TypeKey(String, tag), StrV(data)),
          err |-> ""]

\* A readBytes whose probe decodes with the options of the tag.
readBytesAsSubOptions(data, tag, o, result, typ) ==
    IF typ = Bytes
    THEN [result |-> JSONResultAppend(result, TypeKey(typ, tag),
                                      StrV(EncodeToString(data))),
          err |-> ""]
    ELSE IF typ = String
    THEN [result |-> JSONResultAppend(result, TypeKey(typ, tag), StrV(data)),
          err |-> ""]
    ELSE IF typ = Message
    THEN readBytesMessage(tag, result, decode(data, NestedOptions(o, FormatUint(tag))))
    ELSE IF typ >= Packed
    THEN readBytesPacked(readPacked(data, tag, typ, result))
    ELSE readBytesDefault(data, tag, result,
                          decode(data, NestedOptions(o, FormatUint(tag))))

\* readBytes with typ the hint of the tag.
readBytesAs(data, tag, o, result, typ) ==
    IF typ = Bytes
    THEN [result |-> JSONResultAppend(result, TypeKey(typ, tag),
                                      StrV(EncodeToString(data))),
          err |-> ""]
    ELSE IF typ = String
    THEN [result |-> JSONResultAppend(result, TypeKey(typ, tag), StrV(data)),
          err |-> ""]
    ELSE IF typ = Message
    THEN readBytesMessage(tag, result, decode(data, NestedOptions(o, FormatUint(tag))))
    ELSE IF typ >= Packed
    THEN readBytesPacked(readPacked(data, tag, typ, result))
    ELSE readBytesDefault(data, tag, result, decode(data, o))

\* func readBytes(data, tag, opts, result) (err error)
readBytes(data, tag, o, result) ==
    readBytesAs(data, tag, o, result, GetTypeByTag(o, FormatUint(tag)))

\* if err != nil { return nil, err }, else the next iteration
decodeNext(o, rest, r) ==
    IF r.err # "" THEN decodeFail(r.result, r.err)
    ELSE decodeLoop(rest, o, r.result)

\* case Bytes of decode, after protowire.ConsumeBytes returned c.
decodeBytes(o, result, tt, c) ==
    IF c.n < 0 THEN decodeFail(result, ParseError(c.n))
    ELSE decodeNext(o, Drop(tt.rest, c.n), readBytes(c.v, tt.Tag, o, result))

\* The readers that return the rest themselves.
decodeScalar(o, r) == decodeNext(o, r.rest, r)

\* One iteration of decode, after readTagType returned tt.
decodeField(o, result, tt) ==
    IF tt.err # "" THEN decodeFail(result, tt.err)
    ELSE IF tt.Type = Varint
    THEN decodeScalar(o, readVarint(tt.rest, tt.Tag, o, result))
    ELSE IF tt.Type = Bytes
    THEN decodeBytes(o, result, tt, ConsumeBytes(tt.rest))
    ELSE IF tt.Type = Fixed32
    THEN decodeScalar(o, readFixed32(tt.rest, tt.Tag, o, result))
    ELSE IF tt.Type = Fixed64
    THEN decodeScalar(o, readFixed64(tt.rest, tt.Tag, o, result))
    ELSE decodeFail(result, "unknown type")

\* The loop of decode, with result the accumulator built so far.
decodeLoop(b, o, result) ==
    IF b = <<>> THEN [res |-> ObjV(result), err |-> ""]
    ELSE decodeField(o, result, readTagType(b))

RECURSIVE Unsupported(_)
\* json.Marshal fails on a float that is NaN or an infinity (an exponent of
\* all ones), wherever it is in the value.
Unsupported(v) ==
    CASE v.k = "f32" -> \A i \in 24..31 : v.bits[i] = 1
    [] v.k = "f64" -> \A i \in 53..63 : v.bits[i] = 1
    [] v.k = "arr" -> \E i \in 1..Len(v.items) : Unsupported(v.items[i])
    [] v.k = "obj" -> \E key \in DOMAIN v.m : Unsupported(v.m[key])
    [] OTHER -> FALSE

\* The JSON document json.Marshal writes for a value; the text itself (key
\* order, number syntax) is not modelled.
JsonV(v) == [k |-> "json", doc |-> v]

\* DecodeInterface after its call of decode returned d: every outcome, one
\* for each result the fix-up pass can leave.
DecodeInterfaceOf(d) ==
    IF d.err # "" THEN {[res |-> NullV, err |-> d.err]}
    ELSE {[res |-> ObjV(m), err |-> ""] : m \in FixTagTypeNames(d.res.m)}

\* func DecodeInterface(raw, opts) (map[string]interface{}, error)
DecodeInterface(b, o) == DecodeInterfaceOf(decode(b, o))

\* Decode after its call of decode returned d.
DecodeOf(d) ==
    IF d.err # "" THEN {[res |-> StrV(<<>>), err |-> d.err]}
    ELSE {IF Unsupported(ObjV(m))
          THEN [res |-> StrV(<<>>), err |-> "json: unsupported value"]
          ELSE [res |-> JsonV(ObjV(m)), err |-> ""] :
              m \in FixTagTypeNames(d.res.m)}

\* func Decode(raw, opts) (string, error)
Decode(b, o) == DecodeOf(decode(b, o))

\* ------------------------------------------------------- PB: inputs
\* An input stream is built of fragments.  A fragment records its bytes and
\* what it is: "ok" (a well-formed field), "bad" (a header no decode
\* accepts, whatever follows), "trunc" (a field cut short, only ever the
\* last of its stream) or "wrap" (a length-delimited field of tag around
\* the fragments of inner).

Frag(b, kind) == [b |-> b, kind |-> kind, tag |-> 0, inner |-> <<>>]

Flat(fs) == Concat([i \in 1..Len(fs) |-> fs[i].b])

Wrap(tag, inner) ==
    [b |-> <<8 * tag + 2, Len(Flat(inner))>> \o Flat(inner), kind |-> "wrap",
     tag |-> tag, inner |-> inner]

\* tag 1 varint 1, tag 1 varint 2, tag 2 varint 1
FV1a == Frag(<<8, 1>>, "ok")
FV1b == Frag(<<8, 2>>, "ok")
FV2 == Frag(<<16, 1>>, "ok")
\* tag 1 fixed32 1, tag 1 fixed32 NaN, tag 1 fixed64 1
FF32 == Frag(<<13, 1, 0, 0, 0>>, "ok")
FNaN == Frag(<<13, 0, 0, 192, 127>>, "ok")
FF64 == Frag(<<9, 1, 0, 0, 0, 0, 0, 0, 0>>, "ok")
\* wire types 3 and 4 (group), field number 0, field number 10000
FGroup == Frag(<<11>>, "bad")
FEndGroup == Frag(<<12>>, "bad")
FZero == Frag(<<0>>, "bad")
FBig == Frag(<<128, 241, 4>>, "bad")
\* a varint and a bytes field cut short
FCutVarint == Frag(<<8, 128>>, "trunc")
FCutBytes == Frag(<<10, 2, 65>>, "trunc")

\* Payloads that are no message: text, control characters, packed elements.
TextPayloads ==
    {<<Frag(<<65>>, "trunc")>>, <<Frag(<<65, 9>>, "trunc")>>,
     <<Frag(<<9, 1>>, "trunc")>>, <<Frag(<<1, 9>>, "bad")>>,
     <<Frag(<<127>>, "bad")>>, <<Frag(<<65, 127>>, "trunc")>>}

PackedPayloads ==
    {<<Frag(<<1>>, "bad")>>, <<Frag(<<1, 2>>, "bad")>>,
     <<Frag(<<1, 0, 0, 0>>, "bad")>>, <<Frag(<<1, 0, 0, 0, 0, 0, 0, 0>>, "bad")>>,
     <<Frag(<<1, 0, 0, 0, 2, 0, 0, 0, 0, 0, 0, 0, 3, 0, 0, 0>>, "bad")>>,
     <<Frag(<<128>>, "trunc")>>}

MessagePayloads ==
    {<<>>, <<FV2>>, <<FV2, FV2>>, <<FV1a, FV2>>, <<FGroup>>, <<FV2, FCutVarint>>,
     <<Wrap(2, <<FV2, FV2>>)>>, <<FBig>>, <<FV2, FEndGroup>>}

TopFrags ==
    {FV1a, FV1b, FV2, FF32, FNaN, FF64, FGroup, FEndGroup, FZero, FBig}
    \cup {Wrap(1, p) : p \in TextPayloads \cup PackedPayloads \cup MessagePayloads}
    \cup {Wrap(2, p) : p \in {<<>>, <<FV2, FV2>>, <<Frag(<<65>>, "trunc")>>}}

\* The fragments a stream goes on with after its first.
MoreFrags == {FV1a, FV1b, FGroup, Wrap(1, <<>>), Wrap(1, <<FV2, FV2>>)}

RECURSIVE Streams(_)
\* The streams of exactly n >= 1 fragments, none of them cut short.
Streams(n) ==
    IF n = 1 THEN {<<f>> : f \in TopFrags}
    ELSE {Append(s, f) : s \in Streams(n - 1), f \in MoreFrags}

\* The streams of at most MaxFields fragments; a cut field is the last.
PBStreams ==
    {<<>>, <<FCutVarint>>, <<FCutBytes>>}
    \cup UNION {Streams(n) : n \in 1..MaxFields}
    \cup UNION {{Append(s, FCutVarint) : s \in Streams(n)} : n \in 1..(MaxFields - 1)}

PackedNames ==
    {"packed.fixed32s", "packed.fixed64s", "packed.int32s", "packed.int64s",
     "packed.uints", "packed.sints", "packed.bools", "packed.doubles",
     "packed.floats", "packed.sfixed32s", "packed.sfixed64s"}

\* Options that hint tag 1 as one packed type.
PackedOptions == {Options([x \in {"1"} |-> OptName(n)]) : n \in PackedNames}

PBOptions ==
    {NilOptions,
     Options([x \in {"1"} |-> OptName("int32")]),
     Options([x \in {"1"} |-> OptName("bytes")]),
     Options([x \in {"1"} |-> OptName("string")]),
     Options([x \in {"1"} |-> OptName("message")]),
     Options([x \in {"1"} |-> OptOther]),
     Options([x \in {"2"} |-> OptName("int32")]),
     Options([x \in {"1"} |-> Options([y \in {"2"} |-> OptName("int32")])]),
     Options([x \in {"1options"} |-> Options([y \in {"2"} |-> OptName("int32")])]),
     Options([x \in {"1", "1options"} |->
                 IF x = "1" THEN OptName("message")
                 ELSE Options([y \in {"2"} |-> OptName("int32")])])}
    \cup PackedOptions

\* The inputs of a call: every stream with every options, the packed hints
\* other than int32 and fixed32 on the streams of one fragment.
PBInputs ==
    {<<s, o>> \in PBStreams \X PBOptions :
        \/ Len(s) <= 1
        \/ o \notin PackedOptions
        \/ o.m["1"].s \in {"packed.int32s", "packed.fixed32s"}}

\* ------------------------------------------------------- PB: the calls

NoOut == [res |-> NullV, err |-> ""]

\* A caller holds raw bytes and options and has not called yet.
Init ==
    /\ \E io \in PBInputs : frags = io[1] /\ opts = io[2]
    /\ raw = Flat(frags)
    /\ pc = "start"
    /\ out = NoOut
    /\ acc = EmptyResult
    /\ calls = <<>>

\* The accumulator decode returned (none on an error).
Returned(d) == IF d.err = "" THEN d.res.m ELSE EmptyResult

\* A call returns: out is one of the outcomes, acc keeps the accumulator
\* decode returned, as it was before the fix-up pass.
Return(name, outcomes, d) ==
    /\ out' \in outcomes
    /\ acc' = Returned(d)
    /\ pc' = name
    /\ UNCHANGED <<raw, opts, frags, calls>>

\* pb.DecodeInterface(raw, opts)
DecodeInterfaceCall ==
    /\ pc = "start"
    /\ Return("DecodeInterface", DecodeInterface(raw, opts), decode(raw, opts))

\* pb.Decode(raw, opts)
DecodeCall ==
    /\ pc = "start"
    /\ Return("Decode", Decode(raw, opts), decode(raw, opts))

Next == DecodeInterfaceCall \/ DecodeCall

Spec == Init /\ [][Next]_vars

\* ------------------------------------------------------- JCE: types
\* Int, Int64, Float and Double of package jce are JceInt, JceInt64, JceFloat
\* and JceDouble here: Int is the set of integers and the other three name
\* types of package pb.  JSONResult.Append is JSONResultAppend: Append is the
\* operator of sequences.

Char == 0
Short == 1
JceInt == 2
JceInt64 == 3
JceFloat == 4
JceDouble == 5
String1 == 6
String4 == 7
Map == 8
List == 9
StructBegin == 10
StructEnd == 11
Zero == 12
SimpleList == 13
EmptyMap == 17
EmptyList == 18
EmptySimpleList == 19

\* var jceTypeNamesFormat, the part of each format after "%04d_"
jceTypeNamesFormat(typ) ==
    CASE typ = Zero -> <<"z", "e", "r", "o">>
    [] typ = Char -> <<"c", "h", "a", "r">>
    [] typ = Short -> <<"s", "h", "o", "r", "t">>
    [] typ = JceInt -> <<"i", "n", "t">>
    [] typ = JceInt64 -> <<"i", "n", "t", "6", "4">>
    [] typ = JceFloat -> <<"f", "l", "o", "a", "t">>
    [] typ = JceDouble -> <<"d", "o", "u", "b", "l", "e">>
    [] typ = String1 -> <<"s", "t", "r", "i", "n", "g">>
    [] typ = String4 -> <<"s", "t", "r", "i", "n", "g">>
    [] typ = Map -> <<"m", "a", "p">>
    [] typ = List -> <<"l", "i", "s", "t">>
    [] typ = SimpleList -> <<"s", "i", "m", "p", "l", "e", "l", "i", "s", "t">>
    [] typ = StructBegin -> <<"s", "t", "r", "u", "c", "t">>
    [] typ = EmptyMap -> <<"e", "m", "p", "t", "y", "m", "a", "p">>
    [] typ = EmptyList -> <<"e", "m", "p", "t", "y", "l", "i", "s", "t">>
    [] typ = EmptySimpleList ->
        <<"e", "m", "p", "t", "y", "s", "i", "m", "p", "l", "e", "l", "i", "s", "t">>
    [] OTHER -> <<>>

\* fmt.Sprintf(jceTypeNamesFormat[typ], tag)
JceKey(typ, tag) == Sprintf(jceTypeNamesFormat(typ), tag)

\* ------------------------------------------------------- JCE: decoder
\* A reader returns the rest of the input, the accumulator and an error ("":
\* nil); end is the first result of readOneValue.  A run-time panic unwinds
\* every frame up to the caller of Do: it is the outcome Panic, which every
\* caller passes on as it passes on an error, and which is no error value.

errInvalidData == "jce data invalid"
errUnknownType == "unknown type"
Panic == "panic: runtime error: slice bounds out of range"

JceFail(err) == [rest |-> <<>>, result |-> EmptyResult, err |-> err, end |-> FALSE]
JceOk(rest, result) == [rest |-> rest, result |-> result, err |-> "", end |-> FALSE]

\* A length of more than 30 bits is more than any input here holds: every
\* comparison and loop treats all such lengths alike.
Huge == 2 ^ 30
LengthOf(bits) == IF Len(Norm(bits)) > 30 THEN Huge ELSE BitsNat(Norm(bits))

\* func jceReadTagType(raw) (tagType, rest, err)
jceReadTagType(b) ==
    IF Len(b) < 1 THEN [Tag |-> 0, Type |-> 0, rest |-> <<>>, err |-> errInvalidData]
    ELSE IF b[1] \div 16 < 15
    THEN [Tag |-> b[1] \div 16, Type |-> b[1] % 16, rest |-> Drop(b, 1), err |-> ""]
    ELSE IF Len(b) < 2
    THEN [Tag |-> 0, Type |-> 0, rest |-> <<>>, err |-> errInvalidData]
    ELSE [Tag |-> b[2], Type |-> b[1] % 16, rest |-> Drop(b, 2), err |-> ""]

\* func readZero(tag, result)
readZero(tag, result) == JSONResultAppend(result, JceKey(Zero, tag), NatV(0))

\* func readChar(raw, tag, result): int(raw[0])
readChar(b, tag, result) ==
    IF Len(b) < 1 THEN JceFail(errInvalidData)
    ELSE JceOk(Drop(b, 1), JSONResultAppend(result, JceKey(Char, tag), NatV(b[1])))

\* func readShort(raw, tag, result): int(binary.BigEndian.Uint16(raw))
readShort(b, tag, result) ==
    IF Len(b) < 2 THEN JceFail(errInvalidData)
    ELSE JceOk(Drop(b, 2),
               JSONResultAppend(result, JceKey(Short, tag), Unsigned(BitsBE(Take(b, 2)))))

\* func readInt(raw, tag, result): int(binary.BigEndian.Uint32(raw))
readInt(b, tag, result) ==
    IF Len(b) < 4 THEN JceFail(errInvalidData)
    ELSE JceOk(Drop(b, 4),
               JSONResultAppend(result, JceKey(JceInt, tag), Unsigned(BitsBE(Take(b, 4)))))

\* func readInt64(raw, tag, result): int64(binary.BigEndian.Uint64(raw))
readInt64(b, tag, result) ==
    IF Len(b) < 8 THEN JceFail(errInvalidData)
    ELSE JceOk(Drop(b, 8),
               JSONResultAppend(result, JceKey(JceInt64, tag),
                                Signed(BitsBE(Take(b, 8)), 64)))

\* func readFloat(raw, tag, result)
readFloat(b, tag, result) ==
    IF Len(b) < 4 THEN JceFail(errInvalidData)
    ELSE JceOk(Drop(b, 4),
               JSONResultAppend(result, JceKey(JceFloat, tag), F32V(BitsBE(Take(b, 4)))))

\* func readDouble(raw, tag, result)
readDouble(b, tag, result) ==
    IF Len(b) < 8 THEN JceFail(errInvalidData)
    ELSE JceOk(Drop(b, 8),
               JSONResultAppend(result, JceKey(JceDouble, tag), F64V(BitsBE(Take(b, 8)))))

\* func readString1(raw, tag, result)
readString1(b, tag, result) ==
    IF Len(b) < 1 THEN JceFail(errInvalidData)
    ELSE IF Len(b) < b[1] + 1 THEN JceFail(errInvalidData)
    ELSE JceOk(Drop(b, b[1] + 1),
               JSONResultAppend(result, JceKey(String1, tag),
                                StrV(Take(Drop(b, 1), b[1]))))

\* func readString4(raw, tag, result)
readString4(b, tag, result) ==
    IF Len(b) < 4 THEN JceFail(errInvalidData)
    ELSE IF Len(b) < LengthOf(BitsBE(Take(b, 4))) + 4 THEN JceFail(errInvalidData)
    ELSE JceOk(Drop(b, LengthOf(BitsBE(Take(b, 4))) + 4),
               JSONResultAppend(result, JceKey(String4, tag),
                                StrV(Take(Drop(b, 4), LengthOf(BitsBE(Take(b, 4)))))))

\* The switch of readLength on the type of the header tt.
readLengthOf(tt) ==
    IF tt.err # "" THEN [length |-> 0, rest |-> <<>>, err |-> errInvalidData]
    ELSE IF tt.Type = Zero THEN [length |-> 0, rest |-> tt.rest, err |-> ""]
    ELSE IF tt.Type \notin {Char, Short, JceInt}
    THEN [length |-> 0, rest |-> <<>>, err |-> errUnknownType]
    ELSE IF Len(tt.rest) < 2 ^ tt.Type
    THEN [length |-> 0, rest |-> <<>>, err |-> errInvalidData]
    ELSE [length |-> LengthOf(BitsBE(Take(tt.rest, 2 ^ tt.Type))),
          rest |-> Drop(tt.rest, 2 ^ tt.Type), err |-> ""]

\* func readLength(raw) (length, rest, err): Char, Short and Int hold the
\* length in 1, 2 and 4 bytes, unsigned.
readLength(b) == readLengthOf(jceReadTagType(b))

RECURSIVE readOneValue(_, _)
RECURSIVE jceDecode(_, _)

\* One iteration of jceDecode, after readOneValue returned r.
jceDecodeNext(r) ==
    IF r.err # "" THEN JceFail(r.err)
    ELSE IF r.end THEN JceOk(r.rest, r.result)
    ELSE jceDecode(r.rest, r.result)

\* func jceDecode(raw, result) ([]byte, error): for len(raw) > 0 && !end
jceDecode(b, result) ==
    IF b = <<>> THEN JceOk(b, result) ELSE jceDecodeNext(readOneValue(b, result))

\* A readStruct that binds an accumulator other than the one it decoded into.
readStructOfFresh(tag, result, r) ==
    IF r.err # "" THEN JceFail(r.err)
    ELSE JceOk(r.rest, JSONResultAppend(result, JceKey(StructBegin, tag), ObjV(EmptyResult)))

\* readStruct after jceDecode returned r for the nested accumulator.
readStructOf(tag, result, r) ==
    IF r.err # "" THEN JceFail(r.err)
    ELSE JceOk(r.rest, JSONResultAppend(result, JceKey(StructBegin, tag), ObjV(r.result)))

\* func readStruct(raw, tag, result)
readStruct(b, tag, result) == readStructOf(tag, result, jceDecode(b, EmptyResult))

\* The switch of readMapKey on the header tt.
readMapKeyOf(tt, result) ==
    IF tt.err # "" THEN JceFail(tt.err)
    ELSE IF tt.Type = Char THEN readChar(tt.rest, tt.Tag, result)
    ELSE IF tt.Type = Short THEN readShort(tt.rest, tt.Tag, result)
    ELSE IF tt.Type = JceInt THEN readInt(tt.rest, tt.Tag, result)
    ELSE IF tt.Type = JceInt64 THEN readInt64(tt.rest, tt.Tag, result)
    ELSE IF tt.Type = JceFloat THEN readFloat(tt.rest, tt.Tag, result)
    ELSE IF tt.Type = JceDouble THEN readDouble(tt.rest, tt.Tag, result)
    ELSE IF tt.Type = String1 THEN readString1(tt.rest, tt.Tag, result)
    ELSE IF tt.Type = String4 THEN readString4(tt.rest, tt.Tag, result)
    ELSE IF tt.Type = StructBegin THEN readStruct(tt.rest, tt.Tag, result)
    ELSE IF tt.Type = StructEnd THEN JceOk(tt.rest, result)
    ELSE JceFail(errUnknownType)

\* func readMapKey(raw, result)
readMapKey(b, result) == readMapKeyOf(jceReadTagType(b), result)

RECURSIVE readMapLoop(_, _, _, _)
\* An iteration of readMap after the value was read into the item: the item
\* is added to the array under key.
readMapItem(key, result, n, v) ==
    IF v.err # "" THEN JceFail(v.err)
    ELSE readMapLoop(v.rest, key, AppendArrayItem(result, key, ObjV(v.result)), n - 1)

\* An iteration of readMap after the key was read into the item.
readMapValue(key, result, n, k) ==
    IF k.err # "" THEN JceFail(k.err)
    ELSE readMapItem(key, result, n, readOneValue(k.rest, k.result))

\* for i := 0; i < length; i++ of readMap, with n iterations to go
readMapLoop(b, key, result, n) ==
    IF n = 0 THEN JceOk(b, result)
    ELSE readMapValue(key, result, n, readMapKey(b, EmptyResult))

\* readMap after readLength returned l.
readMapOf(tag, result, l) ==
    IF l.err # "" THEN JceFail(l.err)
    ELSE IF l.length = 0
    THEN JceOk(l.rest, JSONResultAppend(result, JceKey(EmptyMap, tag), NullV))
    ELSE readMapLoop(l.rest, JceKey(Map, tag), result, l.length)

\* func readMap(raw, tag, result)
readMap(b, tag, result) == readMapOf(tag, result, readLength(b))

RECURSIVE readListLoop(_, _, _, _)
\* An iteration of readList after readOneValue returned v for the item.
readListItem(key, result, n, v) ==
    IF v.err # "" THEN JceFail(v.err)
    ELSE readListLoop(v.rest, key, AppendArrayItem(result, key, ObjV(v.result)), n - 1)

\* for i := 0; i < length; i++ of readList, with n iterations to go
readListLoop(b, key, result, n) ==
    IF n = 0 THEN JceOk(b, result)
    ELSE readListItem(key, result, n, readOneValue(b, EmptyResult))

\* readList after readLength returned l.
readListOf(tag, result, l) ==
    IF l.err # "" THEN JceFail(l.err)
    ELSE IF l.length = 0
    THEN JceOk(l.rest, JSONResultAppend(result, JceKey(EmptyList, tag), NullV))
    ELSE readListLoop(l.rest, JceKey(List, tag), result, l.length)

\* func readList(raw, tag, result)
readList(b, tag, result) == readListOf(tag, result, readLength(b))

\* readSimpleList after readLength returned l: raw[:length] and raw[length:]
\* panic when length is more than the bytes that are left.
readSimpleListBody(tag, result, l) ==
    IF l.err # "" THEN JceFail(l.err)
    ELSE IF l.length = 0
    THEN JceOk(l.rest, JSONResultAppend(result, JceKey(EmptySimpleList, tag), NullV))
    ELSE IF l.length > Len(l.rest) THEN JceFail(Panic)
    ELSE JceOk(Drop(l.rest, l.length),
               JSONResultAppend(result, JceKey(SimpleList, tag),
                                IntsV([i \in 1..l.length |-> NatV(l.rest[i])])))

\* readSimpleList after jceReadTagType returned tt, the header of the
\* element type, which is not looked at.
readSimpleListOf(tag, result, tt) ==
    IF tt.err # "" THEN JceFail(tt.err)
    ELSE readSimpleListBody(tag, result, readLength(tt.rest))

\* func readSimpleList(raw, tag, result)
readSimpleList(b, tag, result) == readSimpleListOf(tag, result, jceReadTagType(b))

\* The switch of readOneValue on the header tt.
readOneValueOf(tt, result) ==
    IF tt.err # "" THEN JceFail(tt.err)
    ELSE IF tt.Type = Char THEN readChar(tt.rest, tt.Tag, result)
    ELSE IF tt.Type = Short THEN readShort(tt.rest, tt.Tag, result)
    ELSE IF tt.Type = JceInt THEN readInt(tt.rest, tt.Tag, result)
    ELSE IF tt.Type = JceInt64 THEN readInt64(tt.rest, tt.Tag, result)
    ELSE IF tt.Type = JceFloat THEN readFloat(tt.rest, tt.Tag, result)
    ELSE IF tt.Type = JceDouble THEN readDouble(tt.rest, tt.Tag, result)
    ELSE IF tt.Type = String1 THEN readString1(tt.rest, tt.Tag, result)
    ELSE IF tt.Type = String4 THEN readString4(tt.rest, tt.Tag, result)
    ELSE IF tt.Type = Map THEN readMap(tt.rest, tt.Tag, result)
    ELSE IF tt.Type = List THEN readList(tt.rest, tt.Tag, result)
    ELSE IF tt.Type = StructBegin THEN readStruct(tt.rest, tt.Tag, result)
    ELSE IF tt.Type = StructEnd
    THEN [rest |-> tt.rest, result |-> result, err |-> "", end |-> TRUE]
    ELSE IF tt.Type = Zero THEN JceOk(tt.rest, readZero(tt.Tag, result))
    ELSE IF tt.Type = SimpleList THEN readSimpleList(tt.rest, tt.Tag, result)
    ELSE JceFail(errUnknownType)

\* func readOneValue(raw, result) (end, rest, err)
readOneValue(b, result) == readOneValueOf(jceReadTagType(b), result)

\* Do after jceDecode returned r: an error or panic of the decode, the
\* invalid-data error for input left over, else the marshalled result.
DoOf(r) ==
    IF r.err # "" THEN [res |-> NullV, err |-> r.err]
    ELSE IF Len(r.rest) # 0 THEN [res |-> NullV, err |-> errInvalidData]
    ELSE IF Unsupported(ObjV(r.result))
    THEN [res |-> NullV, err |-> "json: unsupported value"]
    ELSE [res |-> JsonV(ObjV(r.result)), err |-> ""]

\* func (j *jceImpl) Do(raw, opts...) ([]byte, error)
Do(b) == DoOf(jceDecode(b, EmptyResult))

\* ------------------------------------------------------- JCE: inputs
\* An input is built of elements.  An element records its bytes and what it
\* is: "scalar", "list", "map", "simplelist", "struct" (well-formed, typ its
\* wire type, n its declared length, items the bytes of each of its n
\* items), "end" (a StructEnd), "bad" (a type no dispatch accepts), "open"
\* (a struct without its StructEnd) or "cut" (an element cut short).  The
\* last three are only ever the last element of an input.

JElem(b, kind, typ, tag) ==
    [b |-> b, kind |-> kind, typ |-> typ, tag |-> tag, n |-> 0, items |-> <<>>]

\* The length element of n in the form of typ (Zero: n is 0).
JLen(typ, n) ==
    CASE typ = Zero -> <<12>>
    [] typ = Char -> <<0, n>>
    [] typ = Short -> <<1, 0, n>>
    [] typ = JceInt -> <<2, 0, 0, 0, n>>

JList(tag, lenTyp, items) ==
    [b |-> <<16 * tag + List>> \o JLen(lenTyp, Len(items)) \o Concat(items),
     kind |-> "list", typ |-> List, tag |-> tag, n |-> Len(items), items |-> items]

JMap(tag, lenTyp, items) ==
    [b |-> <<16 * tag + Map>> \o JLen(lenTyp, Len(items)) \o Concat(items),
     kind |-> "map", typ |-> Map, tag |-> tag, n |-> Len(items), items |-> items]

JSimpleList(tag, lenTyp, bytes) ==
    [b |-> <<16 * tag + SimpleList, 0>> \o JLen(lenTyp, Len(bytes)) \o bytes,
     kind |-> "simplelist", typ |-> SimpleList, tag |-> tag, n |-> Len(bytes),
     items |-> [i \in 1..Len(bytes) |-> <<bytes[i]>>]]

\* A struct of the elements items: n is how many there are between its
\* StructBegin and its StructEnd.
JStruct(tag, items) ==
    [b |-> <<16 * tag + StructBegin>> \o Concat(items) \o <<StructEnd>>,
     kind |-> "struct", typ |-> StructBegin, tag |-> tag, n |-> Len(items),
     items |-> items]

\* Zero under the tags 0, 1 and 200 (a two-byte header)
JZero0 == JElem(<<12>>, "scalar", Zero, 0)
JZero1 == JElem(<<28>>, "scalar", Zero, 1)
JZero200 == JElem(<<252, 200>>, "scalar", Zero, 200)
\* Char 7, Short FF FF, Short 00 01, Int FF FF FF FF, Int64 of all ones
JChar == JElem(<<0, 7>>, "scalar", Char, 0)
JShort == JElem(<<1, 255, 255>>, "scalar", Short, 0)
JShort1 == JElem(<<1, 0, 1>>, "scalar", Short, 0)
JInt == JElem(<<2, 255, 255, 255, 255>>, "scalar", JceInt, 0)
JInt64 == JElem(<<3, 255, 255, 255, 255, 255, 255, 255, 255>>, "scalar", JceInt64, 0)
\* Float 1.0, Float NaN, Double 1.0
JFloat == JElem(<<4, 63, 128, 0, 0>>, "scalar", JceFloat, 0)
JNaN == JElem(<<4, 127, 192, 0, 0>>, "scalar", JceFloat, 0)
JDouble == JElem(<<5, 63, 240, 0, 0, 0, 0, 0, 0>>, "scalar", JceDouble, 0)
\* String1 "AB", String4 "A"
JString1 == JElem(<<6, 2, 65, 66>>, "scalar", String1, 0)
JString4 == JElem(<<7, 0, 0, 0, 1, 65>>, "scalar", String4, 0)

JScalars ==
    {JZero0, JZero1, JZero200, JChar, JShort, JShort1, JInt, JInt64, JFloat, JNaN,
     JDouble, JString1, JString4}

\* Items of a list: a Zero, a Char, a StructEnd, a struct of one Zero.
JItems == {<<12>>, <<0, 7>>, <<11>>, <<10, 12, 11>>}

\* Entries of a map: a key then a value.
JEntries == {<<6, 1, 65, 28>>, <<0, 1, 16, 2>>, <<11, 11>>}

JLists ==
    {JList(0, Zero, <<>>), JList(1, Zero, <<>>), JList(0, JceInt, <<<<12>>>>)}
    \cup {JList(0, Char, <<i>>) : i \in JItems}
    \cup {JList(0, Short, <<i, j>>) : i \in {<<12>>, <<0, 7>>}, j \in {<<12>>, <<11>>}}

JMaps ==
    {JMap(0, Zero, <<>>)}
    \cup {JMap(0, Char, <<e>>) : e \in JEntries}
    \cup {JMap(0, Short, <<<<6, 1, 65, 28>>, e>>) : e \in JEntries}

JSimpleLists ==
    {JSimpleList(0, Zero, <<>>), JSimpleList(0, Char, <<5>>),
     JSimpleList(0, Short, <<5, 6>>), JSimpleList(1, JceInt, <<7>>)}

JStructs ==
    {JStruct(0, <<>>), JStruct(0, <<<<12>>>>), JStruct(0, <<<<12>>, <<12>>>>),
     JStruct(0, <<<<12>>, <<0, 7>>>>),
     JStruct(0, <<JString1.b, JString4.b>>),
     JStruct(0, <<JList(0, Char, <<<<12>>>>).b>>)}

\* The well-formed elements.
JWhole == JScalars \cup JLists \cup JMaps \cup JSimpleLists \cup JStructs

JEnd == JElem(<<StructEnd>>, "end", StructEnd, 0)

\* The types 14 and 15, and a length element of type Int64.
JBad ==
    {JElem(<<14>>, "bad", 14, 0), JElem(<<15>>, "bad", 15, 0),
     JElem(<<9, 3, 0, 0, 0, 0, 0, 0, 0, 1, 12>>, "bad", List, 0)}

\* A struct of one Zero without its StructEnd.
JOpen == JElem(<<10, 12>>, "open", StructBegin, 0)

\* The elements that are cut: in the header, in a scalar, in a string, in a
\* length element, between and in the items, in the bytes of a SimpleList.
JCutFrom ==
    {JZero200, JShort, JString1, JString4, JList(0, Short, <<<<12>>, <<0, 7>>>>),
     JMap(0, Char, <<<<6, 1, 65, 28>>>>), JSimpleList(0, Short, <<5, 6>>),
     JSimpleList(0, Char, <<5>>)}

\* Every proper, non-empty prefix of an element.
JCutsOf(e) ==
    {[e EXCEPT !.b = Take(e.b, n), !.kind = "cut"] : n \in 1..(Len(e.b) - 1)}

JCuts == UNION {JCutsOf(e) : e \in JCutFrom}

\* The elements an input goes on with after its first.
JMore ==
    {JZero0, JShort, JList(0, Zero, <<>>), JList(0, Char, <<<<12>>>>),
     JMap(0, Zero, <<>>), JMap(0, Char, <<<<6, 1, 65, 28>>>>),
     JSimpleList(0, Zero, <<>>), JSimpleList(0, Char, <<5>>), JEnd}

RECURSIVE JWholes(_)
\* The inputs of exactly n >= 1 well-formed elements or StructEnds.
JWholes(n) ==
    IF n = 1 THEN {<<e>> : e \in JWhole \cup {JEnd}}
    ELSE {Append(s, e) : s \in JWholes(n - 1), e \in JMore}

\* The inputs of at most MaxElems elements.
JceInputs ==
    {<<>>} \cup {<<e>> : e \in JCuts \cup JBad \cup {JOpen}}
    \cup UNION {JWholes(n) : n \in 1..MaxElems}
    \cup UNION {{Append(s, e) : s \in JWholes(n), e \in JCuts \cup JBad \cup {JOpen}} :
                    n \in 1..(MaxElems - 1)}

\* ------------------------------------------------------- JCE: the call

JceInit ==
    /\ frags \in JceInputs
    /\ raw = Flat(frags)
    /\ opts = NilOptions
    /\ pc = "start"
    /\ out = NoOut
    /\ acc = EmptyResult
    /\ calls = <<>>

\* The accumulator jceDecode filled (none on an error).
Filled(r) == IF r.err = "" THEN r.result ELSE EmptyResult

\* jce.Do(raw); acc keeps the accumulator as it was before json.Marshal.
DoCall ==
    /\ pc = "start"
    /\ out' = Do(raw)
    /\ acc' = Filled(jceDecode(raw, EmptyResult))
    /\ pc' = "Do"
    /\ UNCHANGED <<raw, opts, frags, calls>>

JceNext == DoCall

JceSpec == JceInit /\ [][JceNext]_vars

\* ------------------------------------------------------- JSONResult: calls
\* The accumulator on its own: calls is the history of the calls made on it.

AccKeys == {<<"a">>, <<"b", "s">>}
AccScalars == {NatV(1), NatV(2), StrV(<<65>>), NullV}

AccInit ==
    /\ acc = EmptyResult
    /\ calls = <<>>
    /\ pc = "acc"
    /\ raw = <<>>
    /\ frags = <<>>
    /\ opts = NilOptions
    /\ out = NoOut

\* j.Append(key, value)
AppendCall ==
    /\ Len(calls) < MaxCalls
    /\ \E key \in AccKeys, value \in AccScalars :
        /\ acc' = JSONResultAppend(acc, key, value)
        /\ calls' = Append(calls, [op |-> "Append", key |-> key, value |-> value])
    /\ UNCHANGED <<raw, opts, frags, pc, out>>

\* j.AppendArrayItem(key, value)
AppendArrayItemCall ==
    /\ Len(calls) < MaxCalls
    /\ \E key \in AccKeys, value \in {NatV(1), ObjV(EmptyResult)} :
        /\ acc' = AppendArrayItem(acc, key, value)
        /\ calls' = Append(calls, [op |-> "AppendArrayItem", key |-> key,
                                   value |-> value])
    /\ UNCHANGED <<raw, opts, frags, pc, out>>

\* j.FixTagTypeNames()
FixTagTypeNamesCall ==
    /\ Len(calls) < MaxCalls
    /\ acc' \in FixTagTypeNames(acc)
    /\ calls' = Append(calls, [op |-> "FixTagTypeNames", key |-> <<>>, value |-> NullV])
    /\ UNCHANGED <<raw, opts, frags, pc, out>>

AccNext == AppendCall \/ AppendArrayItemCall \/ FixTagTypeNamesCall

AccSpec == AccInit /\ [][AccNext]_vars

\* ------------------------------------------------------- properties: PB

Called == pc \in {"Decode", "DecodeInterface"}

\* The mapping a successful call returned: Decode's inside its document.
OutMap == IF out.res.k = "json" THEN out.res.doc.m ELSE out.res.m

\* The payload of the only field of the input, a length-delimited one.
OneWrap == Len(frags) = 1 /\ frags[1].kind = "wrap"
Payload == Flat(frags[1].inner)

RECURSIVE PluralRight(_)
\* In the accumulator m, in every accumulator nested in it and in every
\* accumulator that is an element of a sequence in it: a key ends in "s" if
\* and only if its value is a sequence.
PluralRight(m) ==
    \A key \in DOMAIN m :
        /\ EndsInS(key) <=> m[key].k = "arr"
        /\ m[key].k = "obj" => PluralRight(m[key].m)
        /\ m[key].k = "arr" =>
            \A i \in 1..Len(m[key].items) :
                m[key].items[i].k = "obj" => PluralRight(m[key].items[i].m)

\* C1: after Decode / DecodeInterface succeeds, at every depth of the returned
\* mapping, elements of sequences included, a key ends in "s" if and only if
\* its value is a sequence.
C1_KeysPluralIffSequence == (Called /\ out.err = "") => PluralRight(OutMap)

\* C2: FixTagTypeNames visits each key of a level once: the keys returned are
\* the keys decode left, each sequence-valued key k renamed to exactly k+"s"
\* (tag 1 repeated as varint: "0001_varints", never "0001_varintss").
C2_RenamedExactlyOnce ==
    (Called /\ out.err = "") =>
        DOMAIN OutMap = {IF acc[key].k = "arr" THEN key \o <<"s">> ELSE key :
                            key \in DOMAIN acc}

VarintPacked == {Packed + Int32, Packed + Int64, Packed + UInt, Packed + SInt, Packed + Bool}
Fixed32Packed == {Packed + Fixed32, Packed + Float, Packed + SFixed32}

\* The width of the elements of a packed payload whose varints are one byte.
PackedWidth(typ) ==
    IF typ \in VarintPacked THEN 1 ELSE IF typ \in Fixed32Packed THEN 4 ELSE 8

\* A well-formed packed payload of at least one element.
WellFormedPacked(typ, data) ==
    /\ data # <<>>
    /\ Len(data) % PackedWidth(typ) = 0
    /\ typ \in VarintPacked => \A i \in 1..Len(data) : data[i] < 128

\* The bits of element i of a well-formed packed payload.
PackedElem(typ, data, i) ==
    IF typ \in VarintPacked THEN Take(BitsOfByte(data[i]), 7)
    ELSE BitsLE(Take(Drop(data, PackedWidth(typ) * (i - 1)), PackedWidth(typ)))

\* The type the options hint for tag 1.
Hint1 == GetTypeByTag(opts, "1")

\* C3: a well-formed packed payload of n >= 1 elements under tag 1 with the
\* matching packed hint decodes to the one key "0001_packed.<name>s" bound to
\* the sequence of its n values in payload order, for every packed type and
\* also when n = 1.
C3_PackedIsSequence ==
    (Called /\ OneWrap /\ frags[1].tag = 1 /\ Hint1 \in PackedTypes
            /\ WellFormedPacked(Hint1, Payload)) =>
        /\ out.err = ""
        /\ OutMap = (TypeKey(Hint1, 1) \o <<"s">>) :>
                ArrV([i \in 1..(Len(Payload) \div PackedWidth(Hint1)) |->
                        PackedValue(Hint1, PackedElem(Hint1, Payload, i))])

\* C4: a length-delimited field without a hint whose payload is no message
\* is labelled bytes (lowercase hex) if and only if the payload holds, at
\* any position, a byte <= 31 other than HT, LF, CR, or a DEL; otherwise it
\* is labelled string.
C4_BytesIffControlChar ==
    (pc = "DecodeInterface" /\ OneWrap
            /\ GetTypeByTag(opts, FormatUint(frags[1].tag)) = Unkown
            /\ decode(Payload, opts).err # "") =>
        /\ out.err = ""
        /\ OutMap = IF HasControlChar(Payload)
                    THEN TypeKey(Bytes, frags[1].tag) :> StrV(EncodeToString(Payload))
                    ELSE TypeKey(String, frags[1].tag) :> StrV(Payload)

\* The options {"1": {"2": "int32"}}
InlineOptions == Options([x \in {"1"} |-> Options([y \in {"2"} |-> OptName("int32")])])

\* C5: GetOptionsByTag returns the sub-mapping under "<tag>options" when that
\* is a sub-mapping and otherwise the sub-mapping stored under "<tag>"; with
\* the options {"1": {"2": "int32"}} the message at tag 1 is decoded with the
\* hint int32 on its tag 2.
C5_InlineSubMapping ==
    pc = "DecodeInterface" =>
        /\ \A tag \in {"1", "2"} :
            GetOptionsByTag(opts, tag) = GetOptionsByTagInline(opts, tag)
        /\ (opts = InlineOptions /\ frags = <<Wrap(1, <<FV2>>)>>) =>
            OutMap = TypeKey(Message, 1) :> ObjV(TypeKey(Int32, 2) :> NatV(1))

RECURSIVE MustFail(_, _)
\* A field fails the decode of its stream under the options o: a header or a
\* field no decode accepts, a field cut short, a field hinted message whose
\* fields fail under its nested options, or a field hinted packed whose
\* payload does not end with a whole element.  A length-delimited field
\* without such a hint fails nothing.
FragFails(f, o) ==
    \/ f.kind \in {"bad", "trunc"}
    \/ /\ f.kind = "wrap"
       /\ GetTypeByTag(o, FormatUint(f.tag)) = Message
       /\ MustFail(f.inner, GetOptionsByTag(o, FormatUint(f.tag)))
    \/ /\ f.kind = "wrap"
       /\ GetTypeByTag(o, FormatUint(f.tag)) \in VarintPacked
       /\ Flat(f.inner) # <<>>
       /\ Flat(f.inner)[Len(Flat(f.inner))] >= 128
    \/ /\ f.kind = "wrap"
       /\ GetTypeByTag(o, FormatUint(f.tag)) \in PackedTypes \ VarintPacked
       /\ Len(Flat(f.inner)) % PackedWidth(GetTypeByTag(o, FormatUint(f.tag))) # 0

\* Some field of the stream fs fails its decode under o.
MustFail(fs, o) == \E i \in 1..Len(fs) : FragFails(fs[i], o)

\* The results that hold no output: a nil mapping, an empty string.
NoOutput == {NullV, StrV(<<>>)}

\* C7: a decode failure in the top-level stream, in a message decoded because
\* of a message hint or in a packed payload makes the call return an error
\* and no output; every error comes without output; and the failed probe of
\* a field without a hint fails nothing, the stream is decoded on.
C7_FailureIsFatal ==
    Called =>
        /\ MustFail(frags, opts) => out.err # ""
        /\ out.err # "" => out.res \in NoOutput
        /\ ~MustFail(frags, opts) => out.err \in {"", "json: unsupported value"}
        /\ (~MustFail(frags, opts) /\ pc = "DecodeInterface") => out.err = ""

\* A call returned an error for a stream whose first field decoded and whose
\* second did not.
C7_Witness ==
    /\ pc = "Decode" /\ Len(frags) = 2
    /\ frags[1].kind = "ok" /\ frags[2].kind = "bad"
    /\ out.err # "" /\ out.res = StrV(<<>>)

\* ------------------------------------------------------- properties: JSONResult

RECURSIVE ValuesOn(_, _)
\* The values of the calls made on key, in call order.
ValuesOn(cs, key) ==
    IF cs = <<>> THEN <<>>
    ELSE (IF Head(cs).key = key THEN <<Head(cs).value>> ELSE <<>>)
         \o ValuesOn(Tail(cs), key)

\* Every call made on key was an Append, and no key was renamed.
OnlyAppended(key) ==
    \A i \in 1..Len(calls) :
        /\ calls[i].op # "FixTagTypeNames"
        /\ calls[i].key = key => calls[i].op = "Append"

\* C6: n >= 2 Append calls on one key with scalar values leave the key bound
\* to the sequence of those values in call order, one call leaves it bound
\* to the value itself, and calls on another key change nothing of it: a key
\* without a call stays absent.
C6_AppendKeepsCallOrder ==
    \A key \in AccKeys :
        OnlyAppended(key) =>
            IF Len(ValuesOn(calls, key)) = 0 THEN key \notin DOMAIN acc
            ELSE /\ key \in DOMAIN acc
                 /\ acc[key] = IF Len(ValuesOn(calls, key)) = 1
                               THEN ValuesOn(calls, key)[1]
                               ELSE ArrV(ValuesOn(calls, key))

\* Three Appends of values that are not all the same on one key, with a call
\* on the other key among them.
C6_Witness ==
    /\ OnlyAppended(<<"a">>)
    /\ Len(ValuesOn(calls, <<"a">>)) = 3
    /\ ValuesOn(calls, <<"a">>)[1] # ValuesOn(calls, <<"a">>)[3]
    /\ Len(calls) = 4 /\ calls[2].key # <<"a">>
    /\ acc[<<"a">>].k = "arr"

\* ------------------------------------------------------- properties: JCE

WholeKinds == {"scalar", "list", "map", "simplelist", "struct"}

\* C8: an input cut in the middle of an element (after well-formed elements)
\* makes Do return the invalid-data error: no slice is out of bounds, no read
\* goes past the end of the input.
C8_CutIsInvalidData ==
    (pc = "Do" /\ Len(frags) >= 1 /\ frags[Len(frags)].kind = "cut"
            /\ \A i \in 1..(Len(frags) - 1) : frags[i].kind \in WholeKinds) =>
        out.err = errInvalidData

\* C9: a Short is emitted as the signed 16-bit value of its 2 big-endian
\* bytes, an Int as the signed 32-bit value of its 4 big-endian bytes (FF FF
\* and FF FF FF FF are -1).
C9_ShortIntSigned ==
    (pc = "Do" /\ Len(frags) = 1 /\ frags[1].kind = "scalar"
            /\ frags[1].typ \in {Short, JceInt}) =>
        /\ out.err = ""
        /\ out.res.doc.m = JceKey(frags[1].typ, frags[1].tag) :>
                Signed(BitsBE(Tail(frags[1].b)), 8 * (Len(frags[1].b) - 1))

Composites == {"list", "map", "simplelist"}

\* The key of an element in the accumulator around it.
JKeyOf(e) ==
    IF e.kind \in Composites /\ e.n = 0
    THEN JceKey(CASE e.typ = Map -> EmptyMap
                [] e.typ = List -> EmptyList
                [] e.typ = SimpleList -> EmptySimpleList, e.tag)
    ELSE JceKey(e.typ, e.tag)

\* Item i of a composite element, decoded on its own: an entry of a map is
\* its key then its value in one accumulator, an item of a list is its value
\* in one accumulator, an item of a SimpleList is the byte.
JItemOf(e, i) ==
    CASE e.kind = "list" -> ObjV(readOneValue(e.items[i], EmptyResult).result)
    [] e.kind = "map" ->
        ObjV(readOneValue(readMapKey(e.items[i], EmptyResult).rest,
                          readMapKey(e.items[i], EmptyResult).result).result)
    [] e.kind = "simplelist" -> NatV(e.items[i][1])

\* The sequence of the n items of a composite element.
JSequenceOf(e) ==
    [k |-> IF e.kind = "simplelist" THEN "ints" ELSE "arr",
     items |-> [i \in 1..e.n |-> JItemOf(e, i)]]

\* The accumulator m holds what the composite element e is decoded to: for
\* the length 0 the key of the empty composite bound to null, else the key
\* of the composite bound to the sequence of its items in stream order.
CompositeBound(m, e) ==
    /\ JKeyOf(e) \in DOMAIN m
    /\ m[JKeyOf(e)] = IF e.n = 0 THEN NullV ELSE JSequenceOf(e)

\* The original statement of C10: every Map, List or SimpleList element of
\* length L leaves, for L = 0, its empty key bound to null and, for L > 0,
\* its key bound to a sequence of exactly L items in stream order.
C10_AnyComposite ==
    (pc = "Do" /\ out.err = "") =>
        \A i \in 1..Len(frags) :
            frags[i].kind \in Composites => CompositeBound(out.res.doc.m, frags[i])

\* No other element of the same accumulator has the key of element i.
FreshKey(i) ==
    \A x \in 1..Len(frags) :
        (x # i /\ frags[x].kind \in WholeKinds \cup {"open"}) =>
            JKeyOf(frags[x]) # JKeyOf(frags[i])

\* C10: a Map, List or SimpleList element of length L whose key no other
\* element of the same accumulator has leaves, for L = 0, its empty key bound
\* to null and, for L > 0, its key bound to a sequence of exactly L items in
\* stream order.
C10_FreshComposite ==
    (pc = "Do" /\ out.err = "") =>
        \A i \in 1..Len(frags) :
            (frags[i].kind \in Composites /\ FreshKey(i)) =>
                CompositeBound(out.res.doc.m, frags[i])

\* A map of two entries decoded after another element.
C10_Witness ==
    /\ pc = "Do" /\ out.err = "" /\ Len(frags) = 2
    /\ frags[1].kind = "map" /\ frags[1].n = 2 /\ FreshKey(1)
    /\ frags[2].kind \in Composites /\ frags[2].n = 0
    /\ Len(out.res.doc.m[JKeyOf(frags[1])].items) = 2

\* C11: the accumulator decoded for a struct has as many keys as the struct
\* has elements between its StructBegin and the matching StructEnd, whatever
\* their tags and types (two elements of one tag and type, a String1 and a
\* String4 of one tag).
C11_StructKeyCount ==
    (pc = "Do" /\ out.err = "") =>
        \A i \in 1..Len(frags) :
            (frags[i].kind = "struct" /\ FreshKey(i)) =>
                /\ JKeyOf(frags[i]) \in DOMAIN out.res.doc.m
                /\ out.res.doc.m[JKeyOf(frags[i])].k = "obj"
                /\ Cardinality(DOMAIN out.res.doc.m[JKeyOf(frags[i])].m) = frags[i].n

\* The keys element x of the struct e leaves when it is decoded on its own.
ItemKeys(e, x) == DOMAIN readOneValue(e.items[x], EmptyResult).result

\* No two elements of the struct e leave the same key.
DistinctKeys(e) ==
    \A x, y \in 1..e.n : x # y => ItemKeys(e, x) \cap ItemKeys(e, y) = {}

\* C11 (amended): the accumulator decoded for a struct whose elements leave
\* pairwise distinct keys has as many keys as the struct has elements between
\* its StructBegin and the matching StructEnd.
C11_DistinctStructKeyCount ==
    (pc = "Do" /\ out.err = "") =>
        \A i \in 1..Len(frags) :
            (frags[i].kind = "struct" /\ FreshKey(i) /\ DistinctKeys(frags[i])) =>
                /\ JKeyOf(frags[i]) \in DOMAIN out.res.doc.m
                /\ out.res.doc.m[JKeyOf(frags[i])].k = "obj"
                /\ Cardinality(DOMAIN out.res.doc.m[JKeyOf(frags[i])].m) = frags[i].n

\* A struct of two elements of different keys was decoded.
C11_Witness ==
    /\ pc = "Do" /\ out.err = "" /\ Len(frags) >= 1
    /\ frags[1].kind = "struct" /\ frags[1].n = 2 /\ DistinctKeys(frags[1])
    /\ FreshKey(1)
    /\ Cardinality(DOMAIN out.res.doc.m[JKeyOf(frags[1])].m) = 2

\* ------------------------------------------------------- properties: fix-up

\* C12: FixTagTypeNames is idempotent on the accumulators the PB decoder
\* produces: a second run on the result of a first run leaves its keys and
\* values as they are.
C12_FixIdempotent ==
    (Called /\ out.err = "") =>
        \A m \in FixTagTypeNames(acc) : FixTagTypeNames(m) = {m}

\* C13: Decode is deterministic: every run of Decode on the bytes and options
\* of this run returns what this run returned (the same document, or a
\* failure), whatever order the fix-up pass takes.
C13_DecodeDeterministic ==
    pc = "Decode" => \A other \in Decode(raw, opts) : other = out

\* ------------------------------------------------------- properties: PB headers

MaxWrap == 2

RECURSIVE Wrapped(_, _)
\* The error err and err wrapped by readBytes up to d times.
Wrapped(err, d) ==
    IF d = 0 THEN {err}
    ELSE Wrapped(err, d - 1) \cup {WrapErr("[readBytes]", e) : e \in Wrapped(err, d - 1)}

\* errors.Is(err, target)
ErrIs(err, target) == err \in Wrapped(target, MaxWrap)

\* Field i is the first of the stream fs that fails under o.
FirstFail(fs, o, i) ==
    /\ FragFails(fs[i], o)
    /\ \A j \in 1..(i - 1) : ~FragFails(fs[j], o)

RECURSIVE Offence(_, _)
\* What stops the decode at the field f: the header of a field number above
\* 9999 ("big"), the header of a group ("group"), either of them in a message
\* decoded because of a message hint, or something else ("other").
Offence(f, o) ==
    IF f = FBig THEN "big"
    ELSE IF f \in {FGroup, FEndGroup} THEN "group"
    ELSE IF f.kind = "wrap" /\ GetTypeByTag(o, FormatUint(f.tag)) = Message
    THEN Offence(f.inner[CHOOSE i \in 1..Len(f.inner) :
                            FirstFail(f.inner, GetOptionsByTag(o, FormatUint(f.tag)), i)],
                 GetOptionsByTag(o, FormatUint(f.tag)))
    ELSE "other"

\* The decode stops at a header of the kind what.
StoppedBy(what) ==
    \E i \in 1..Len(frags) :
        FirstFail(frags, opts, i) /\ Offence(frags[i], opts) = what

\* The part of C14 on field numbers: a header of a field number above 9999
\* is rejected with the tag-too-big error and without output.
TagTooBigRejected ==
    (Called /\ StoppedBy("big")) =>
        ErrIs(out.err, "pb's tag too big") /\ out.res \in NoOutput

\* C14: a header of a field number above 9999 is rejected with the
\* tag-too-big error, a header of wire type 3 or 4 with an error of its own
\* (group deprecated), which is not the error of an unknown type, at top
\* level and in a message decoded because of a message hint; and no output
\* comes with the error.
C14_HeaderRejected ==
    /\ TagTooBigRejected
    /\ (Called /\ StoppedBy("group")) =>
            /\ out.err # ""
            /\ ~ErrIs(out.err, errUnknownType)
            /\ out.res \in NoOutput

\* ------------------------------------------------------- PB: varint fields
\* A caller holds one varint field and a hint for its tag.

Zeros(n) == [i \in 1..n |-> 0]
Ones(n) == [i \in 1..n |-> 1]

\* The base-128 encoding of the unsigned value bits: 7 bits a byte, least
\* significant first, the continuation bit on every byte but the last.
EncodeVarint(bits) ==
    [i \in 1..(IF Norm(bits) = <<>> THEN 1 ELSE (Len(Norm(bits)) + 6) \div 7) |->
        BitsNat(LowBits(Drop(LowBits(bits, 70), 7 * (i - 1)), 7))
        + (IF 7 * i < Len(Norm(bits)) THEN 128 ELSE 0)]

\* x -> (x << 1) ^ (x >> 63) on a signed value: 2x for x >= 0, 2|x| - 1 else.
EncodeZigZag(x) ==
    IF x.mag = <<>> THEN <<>>
    ELSE IF ~x.neg THEN <<0>> \o x.mag
    ELSE <<1>> \o Norm(Invert(AddOne(Invert(LowBits(x.mag, 64)))))

\* Varint values, each with what it is as a signed 32-bit, a signed 64-bit
\* and a ZigZag value: 0, 1, 2, 150, 2^31, 2^32 - 1, 2^32 + 5, 2^63,
\* 2^64 - 2, 2^64 - 1.
VarintCase(v, int32, int64, sint) ==
    [v |-> v, int32 |-> int32, int64 |-> int64, sint |-> sint]

VarintCases ==
    {VarintCase(<<>>, NatV(0), NatV(0), NatV(0)),
     VarintCase(NatBits(1), NatV(1), NatV(1), IntV(TRUE, NatBits(1))),
     VarintCase(NatBits(2), NatV(2), NatV(2), NatV(1)),
     VarintCase(NatBits(150), NatV(150), NatV(150), NatV(75)),
     VarintCase(Zeros(31) \o <<1>>, IntV(TRUE, Zeros(31) \o <<1>>),
                IntV(FALSE, Zeros(31) \o <<1>>), IntV(FALSE, Zeros(30) \o <<1>>)),
     VarintCase(Ones(32), IntV(TRUE, NatBits(1)), IntV(FALSE, Ones(32)),
                IntV(TRUE, Zeros(31) \o <<1>>)),
     VarintCase(<<1, 0, 1>> \o Zeros(29) \o <<1>>, NatV(5),
                IntV(FALSE, <<1, 0, 1>> \o Zeros(29) \o <<1>>),
                IntV(TRUE, <<1, 1>> \o Zeros(29) \o <<1>>)),
     VarintCase(Zeros(63) \o <<1>>, NatV(0), IntV(TRUE, Zeros(63) \o <<1>>),
                IntV(FALSE, Zeros(62) \o <<1>>)),
     VarintCase(<<0>> \o Ones(63), IntV(TRUE, NatBits(2)), IntV(TRUE, NatBits(2)),
                IntV(FALSE, Ones(63))),
     VarintCase(Ones(64), IntV(TRUE, NatBits(1)), IntV(TRUE, NatBits(1)),
                IntV(TRUE, Zeros(63) \o <<1>>))}

VarintTags == {1, 300}

\* The hints of a tag: the five of readVarint, names of other types, a name
\* of no type, a value that is no name, a sub-mapping.
VarintHints ==
    {OptName(n) : n \in {"int32", "int64", "uint", "sint", "bool", "varint",
                          "string", "fixed32", "packed.int32s", "nope"}}
    \cup {OptOther, Options(<<>>)}

\* The field of tag with the value of the case c.
VarintFrag(tag, c) ==
    [b |-> EncodeVarint(NatBits(8 * tag)) \o EncodeVarint(c.v), kind |-> "ok",
     tag |-> tag, inner |-> <<>>, case |-> c]

VarintInit ==
    /\ \E tag \in VarintTags, c \in VarintCases :
        /\ frags = <<VarintFrag(tag, c)>>
        /\ opts \in {NilOptions}
                    \cup {Options([x \in {FormatUint(tag)} |-> h]) : h \in VarintHints}
    /\ raw = Flat(frags)
    /\ pc = "start"
    /\ out = NoOut
    /\ acc = EmptyResult
    /\ calls = <<>>

VarintSpec == VarintInit /\ [][Next]_vars

\* ------------------------------------------------------- properties: PB varint

\* The name the options give the tag ("": none).
HintName(o, tag) ==
    IF o.k = "map" /\ FormatUint(tag) \in DOMAIN o.m /\ o.m[FormatUint(tag)].k = "name"
    THEN o.m[FormatUint(tag)].s
    ELSE ""

\* The key of a varint field of tag hinted name.
VarintKey(tag, name) ==
    (IF tag = 1 THEN <<"0", "0", "0", "1", "_">> ELSE <<"0", "3", "0", "0", "_">>)
    \o (CASE name = "int32" -> <<"i", "n", "t", "3", "2">>
        [] name = "int64" -> <<"i", "n", "t", "6", "4">>
        [] name = "uint" -> <<"u", "i", "n", "t">>
        [] name = "sint" -> <<"s", "i", "n", "t">>
        [] name = "bool" -> <<"b", "o", "o", "l">>
        [] OTHER -> <<"v", "a", "r", "i", "n", "t">>)

\* The value of the case c read under the hint name.
VarintExpected(c, name) ==
    CASE name = "int32" -> c.int32
    [] name = "int64" -> c.int64
    [] name = "sint" -> c.sint
    [] name = "bool" -> BoolV(c.v # <<>>)
    [] OTHER -> IntV(FALSE, c.v)

\* C15: a varint field of value v under tag t is emitted under NNNN_int32 as
\* the signed low 32 bits, under NNNN_int64 as the signed 64 bits, under
\* NNNN_uint as v, under NNNN_sint as the x of which v is the ZigZag
\* encoding, under NNNN_bool as v # 0, and with any other hint or none under
\* NNNN_varint as v unsigned.
C15_VarintByHint ==
    Called =>
        /\ EncodeZigZag(frags[1].case.sint) = frags[1].case.v
        /\ out.err = ""
        /\ OutMap = VarintKey(frags[1].tag, HintName(opts, frags[1].tag)) :>
                        VarintExpected(frags[1].case, HintName(opts, frags[1].tag))

\* The varint 2^64 - 1 was read as a sint: the smallest 64-bit value.
C15_Witness ==
    /\ Called /\ HintName(opts, frags[1].tag) = "sint"
    /\ frags[1].case.v = Ones(64)
    /\ out.err = ""
    /\ OutMap[VarintKey(frags[1].tag, "sint")] = IntV(TRUE, Zeros(63) \o <<1>>)

\* ------------------------------------------------------- properties: PB probe

\* The options {"2": "int32"} and {"1options": {"2": "int32"}}.
OuterHint == Options([x \in {"2"} |-> OptName("int32")])
SubOptionsOnly == Options([x \in {"1options"} |-> Options([y \in {"2"} |-> OptName("int32")])])

\* The tag has no hint readBytes uses: it is no bytes, string, message or
\* packed type.
NoUsableHint(o, tag) ==
    /\ GetTypeByTag(o, FormatUint(tag)) \notin {Bytes, String, Message}
    /\ GetTypeByTag(o, FormatUint(tag)) < Packed

\* C16: the probe of a bytes field without a usable hint decodes the payload
\* with the options of the enclosing level: a hint under "2" of these options
\* is applied to the inner tag 2, hints under "1options" are not applied.
C16_ProbeUsesOuterOptions ==
    (pc = "DecodeInterface" /\ OneWrap /\ NoUsableHint(opts, frags[1].tag)
            /\ ~MustFail(frags[1].inner, opts)) =>
        /\ out.err = ""
        /\ acc = TypeKey(Message, frags[1].tag) :> decode(Payload, opts).res
        /\ (frags = <<Wrap(1, <<FV2>>)>> /\ opts = OuterHint) =>
            OutMap = TypeKey(Message, 1) :> ObjV(TypeKey(Int32, 2) :> NatV(1))
        /\ (frags = <<Wrap(1, <<FV2>>)>> /\ opts = SubOptionsOnly) =>
            OutMap = TypeKey(Message, 1) :> ObjV(TypeKey(Varint, 2) :> NatV(1))

\* The field 1 without a hint was probed under the options {"2": "int32"}.
C16_Witness ==
    /\ pc = "DecodeInterface" /\ frags = <<Wrap(1, <<FV2>>)>> /\ opts = OuterHint
    /\ out.err = ""
    /\ TypeKey(Int32, 2) \in DOMAIN OutMap[TypeKey(Message, 1)].m

\* ------------------------------------------------------- properties: JCE structs

\* C17: an input that ends after a StructBegin and before the matching
\* StructEnd makes Do fail with the invalid-data error: the struct read so
\* far is not returned as a result.
C17_OpenStructInvalid ==
    (pc = "Do" /\ Len(frags) >= 1 /\ frags[Len(frags)].kind = "open"
            /\ \A i \in 1..(Len(frags) - 1) : frags[i].kind \in WholeKinds) =>
        out.err = errInvalidData

\* ------------------------------------------------------- properties: termination

\* The errors Do returns.
JceErrors == {errInvalidData, errUnknownType, "json: unsupported value"}

\* A List or Map that declares more items than the input holds stops with
\* the invalid-data error when the input is exhausted.
ListMapStopAtEnd ==
    (pc = "Do" /\ Len(frags) >= 1 /\ frags[Len(frags)].kind = "cut"
            /\ frags[Len(frags)].typ \in {List, Map}
            /\ \A i \in 1..(Len(frags) - 1) : frags[i].kind \in WholeKinds) =>
        out.err = errInvalidData

\* C18: every call of the decoder on a finite input ends with a result or
\* with an error (and not otherwise: no crash), and a List or Map loop stops
\* with an error as soon as the input is exhausted, also when the declared
\* length is more than what is left.
C18_EndsWithResultOrError ==
    /\ pc = "Do" =>
            \/ out.err = "" /\ out.res.k = "json"
            \/ out.err \in JceErrors /\ out.res = NullV
    /\ ListMapStopAtEnd

====
